---- MODULE Spec2Model ----
(***************************************************************************)
(* Model of scramblepdf/__init__.py: the CMap codec (parse_cmap,           *)
(* build_cmap) and one call of scramble_pdf over a document.               *)
(*                                                                         *)
(* Representation.                                                         *)
(*  - A hex code (a Python str such as "004E") is a sequence of one-       *)
(*    character strings, <<"0","0","4","E">>, so that len(), upper() and   *)
(*    int(.,16) are computed and not assumed.                              *)
(*  - A dict (insertion ordered) is a sequence of <<key, value>> pairs     *)
(*    with pairwise distinct keys.                                         *)
(*  - A CMap text is the sequence of its whitespace-separated tokens.      *)
(*    Every token is a record [k, n, c]: k the kind, n the integer of a    *)
(*    "count" token, c the code between the angle brackets of a "hex"      *)
(*    token.  A boilerplate line that holds no '<' and none of the words   *)
(*    the regular expressions look for is one token of kind "text".        *)
(*  - ratio is the rational ratioNum / RatioDen.                           *)
(***************************************************************************)
EXTENDS Integers, Sequences, FiniteSets, TLC

VARIABLES
    \* ---- the codec harness: build_cmap then parse_cmap on one table
    cpc,            \* "in" | "built" | "parsed" | "off"
    mapping,        \* the dict handed to build_cmap
    text,           \* the tokens build_cmap returned
    parsed,         \* the pairs parse_cmap returned
    \* ---- one call scramble_pdf(pdf, font_mappings, ratio, exclude_codes)
    pc,             \* "call" | "loop" | "returned" | "raised" | "off"
    pages,          \* pdf.pages: per page the font objects of /Resources /Font, in order
    fonts,          \* the font objects: [base, has_tounicode, stream]
    font_mappings,  \* the caller's dict: BaseFont -> mapping
    ratioNum,       \* ratio = ratioNum / RatioDen
    exclude_codes,  \* the codes as the caller gave them
    page, idx,      \* the position of the two for loops
    fonts0,         \* history: the font objects at the call
    font_mappings0, \* history: the caller's dict at the call
    replaced,       \* history: the font objects whose stream the call replaced
    last            \* history: what the last turn of the inner loop did

codecVars == <<cpc, mapping, text, parsed>>
passVars == <<pc, pages, fonts, font_mappings, ratioNum, exclude_codes, page, idx,
              fonts0, font_mappings0, replaced, last>>
vars == <<cpc, mapping, text, parsed, pc, pages, fonts, font_mappings, ratioNum,
          exclude_codes, page, idx, fonts0, font_mappings0, replaced, last>>

----------------------------------------------------------------------------
\* Bounds of the enumerated inputs
MaxTableLen == 201      \* entries of a table handed to the codec harness
MaxWidth == 4           \* hex digits of a source code in the codec harness
MaxEntries == 3         \* entries of the first font's table
RatioDen == 4           \* ratios are the multiples of 1/RatioDen from -1/RatioDen to 1 + 1/RatioDen
MaxCodepoint == 65535   \* destination codepoints handed to the partition harness

\* build_cmap's block size
ChunkSize == 100

----------------------------------------------------------------------------
\* Hex strings

HexDigits == <<"0","1","2","3","4","5","6","7","8","9","A","B","C","D","E","F">>

RECURSIVE Pow16(_)
Pow16(w) == IF w = 0 THEN 1 ELSE 16 * Pow16(w - 1)

\* the w-digit upper-case hex numeral of v (an enumerated input, not program code)
Hex(v, w) == [i \in 1..w |-> HexDigits[((v \div Pow16(w - i)) % 16) + 1]]

Min(a, b) == IF a <= b THEN a ELSE b

\* max(len(src) for src in mapping) over a non-empty dict
MaxLenOf(m) ==
    LET lens == {Len(m[i][1]) : i \in 1..Len(m)}
    IN  CHOOSE l \in lens : \A x \in lens : x <= l

----------------------------------------------------------------------------
\* Tokens

Tok(kind, num, code) == [k |-> kind, n |-> num, c |-> code]
TextTok(name) == Tok(name, 0, <<>>)
CountTok(num) == Tok("count", num, <<>>)
HexTok(code) == Tok("hex", 0, code)

\* lines 82-100 of build_cmap, one token per boilerplate line
CMapHeader ==
    << TextTok("%!PS-Adobe-3.0 Resource-CMap"),
       TextTok("%%DocumentNeededResources: procset CIDInit"),
       TextTok("%%IncludeResource: procset CIDInit"),
       TextTok("%%BeginResource: CMap Custom"),
       TextTok("%%Title: (Custom Adobe Identity 0)"),
       TextTok("%%Version: 1"),
       TextTok("%%EndComments"),
       TextTok("/CIDInit /ProcSet findresource begin"),
       TextTok("12 dict begin"),
       TextTok("begincmap"),
       TextTok("/CIDSystemInfo 3 dict dup begin"),
       TextTok("/Registry (Adobe) def"),
       TextTok("/Ordering (Identity) def"),
       TextTok("/Supplement 0 def"),
       TextTok("end def"),
       TextTok("/CMapName /Custom def"),
       TextTok("/CMapVersion 1 def"),
       TextTok("/CMapType 0 def"),
       TextTok("/WMode 0 def") >>

\* lines 111-119 of build_cmap
CMapTrailer ==
    << TextTok("endbfchar"),
       TextTok("endcmap"),
       TextTok("CMapName currentdict /CMap defineresource pop"),
       TextTok("end"),
       TextTok("end"),
       TextTok("%%EndResource"),
       TextTok("%%EOF") >>

----------------------------------------------------------------------------
\* build_cmap

\* line 107: a new block is opened in front of the entry of 0-based index i
SplitBefore(i, n) == i # 0 /\ i % ChunkSize = 0 /\ i # n - 1

\* lines 107-110: the tokens one turn of the loop appends, for the entry of
\* 1-based position j (enumerate's i is j - 1)
EntryChunk(m, j) ==
    (IF SplitBefore(j - 1, Len(m))
     THEN << TextTok("endbfchar"),
             CountTok(Min(ChunkSize, Len(m) - (j - 1))),
             TextTok("beginbfchar") >>
     ELSE <<>>)
    \o << HexTok(m[j][1]), HexTok(m[j][2]) >>

RECURSIVE EntryLines(_, _, _)
\* line 106: the loop over mapping.items(), turns lo..hi in order (the range
\* is halved so that the evaluation stays shallow)
EntryLines(m, lo, hi) ==
    IF lo > hi THEN <<>>
    ELSE IF lo = hi THEN EntryChunk(m, lo)
    ELSE LET mid == (lo + hi) \div 2
         IN  EntryLines(m, lo, mid) \o EntryLines(m, mid + 1, hi)

\* lines 76-79: the two bounds of the codespace range
CodeSpace(m) ==
    LET max_len == MaxLenOf(m)
        byte_len == max_len \div 2
    IN  << [i \in 1..(2 * byte_len) |-> "0"], [i \in 1..(2 * byte_len) |-> "F"] >>

\* build_cmap(mapping) for a non-empty dict (max() of an empty dict raises)
build_cmap(m) ==
    CMapHeader
    \o << CountTok(1), TextTok("begincodespacerange"),
          HexTok(CodeSpace(m)[1]), HexTok(CodeSpace(m)[2]),
          TextTok("endcodespacerange"),
          CountTok(Min(ChunkSize, Len(m))), TextTok("beginbfchar") >>
    \o EntryLines(m, 1, Len(m))
    \o CMapTrailer

----------------------------------------------------------------------------
\* parse_cmap

HexChars == {"0","1","2","3","4","5","6","7","8","9",
             "A","B","C","D","E","F","a","b","c","d","e","f"}

\* <([0-9A-Fa-f]+)> matches the token
IsHexTok(t) == t.k = "hex" /\ Len(t.c) > 0 /\ \A i \in 1..Len(t.c) : t.c[i] \in HexChars

\* the least index >= from of a token of kind `kind`, 0 if there is none
FirstIndex(toks, kind, from) ==
    LET hits == {i \in from..Len(toks) : toks[i].k = kind}
    IN  IF hits = {} THEN 0 ELSE CHOOSE i \in hits : \A j \in hits : i <= j

\* a parse_cmap that scans the whole text and never looks for the block
BlockContentWholeText(toks) == toks

\* lines 70-71: group 1 of beginbfchar\s*(.*?)\s*endcmap, else the whole text
BlockContent(toks) ==
    LET b == FirstIndex(toks, "beginbfchar", 1)
        e == IF b = 0 THEN 0 ELSE FirstIndex(toks, "endcmap", b + 1)
    IN  IF b # 0 /\ e # 0 THEN SubSeq(toks, b + 1, e - 1) ELSE toks

\* <hex>\s+<hex> matches at token i
MatchAt(toks, i) == i < Len(toks) /\ IsHexTok(toks[i]) /\ IsHexTok(toks[i + 1])

RECURSIVE FindAll(_, _, _)
\* line 72: re.findall scanning from token lo, matches starting at lo..hi, left
\* to right and not overlapping: <<the pairs, the token the scan goes on from>>
\* (the range is halved so that the evaluation stays shallow)
FindAll(toks, lo, hi) ==
    IF lo > hi THEN << <<>>, lo >>
    ELSE IF lo = hi
         THEN IF MatchAt(toks, lo)
              THEN << << <<toks[lo].c, toks[lo + 1].c>> >>, lo + 2 >>
              ELSE << <<>>, lo + 1 >>
    ELSE LET mid == (lo + hi) \div 2
             l == FindAll(toks, lo, mid)
             r == FindAll(toks, l[2], hi)
         IN  << l[1] \o r[1], r[2] >>

parse_cmap(toks) == FindAll(BlockContent(toks), 1, Len(BlockContent(toks)))[1]

----------------------------------------------------------------------------
\* The classification of a destination code

\* UNICODE_REGIONS, in the dict's order
UNICODE_REGIONS ==
    << [name |-> "ASCII Non-punctuation",
        ranges |-> << <<65, 90>>, <<97, 122>>, <<48, 57>> >>,
        scramble |-> TRUE],
       [name |-> "CJK Characters",
        ranges |-> << <<19968, 40959>> >>,
        scramble |-> TRUE],
       [name |-> "CJK Symbols",
        ranges |-> << <<12288, 12351>>, <<65280, 65519>> >>,
        scramble |-> FALSE],
       [name |-> "ASCII Punctuation",
        ranges |-> << <<33, 47>>, <<58, 64>>, <<91, 96>>, <<123, 126>> >>,
        scramble |-> FALSE],
       [name |-> "Custom Selection",
        ranges |-> << <<73, 73>>, <<48, 57>>, <<22270, 22270>>, <<34920, 34920>>,
                      <<23665, 23665>>, <<19996, 19996>>, <<22823, 22823>>,
                      <<23398, 23398>>, <<26412, 26412>>, <<31185, 31185>>,
                      <<27605, 27605>>, <<19994, 19994>>, <<35770, 35770>>,
                      <<25991, 25991>>, <<35774, 35774>>, <<35745, 35745>> >>,
        scramble |-> FALSE] >>

\* UNICODE_REGIONS["Custom Selection"]
CustomRegion ==
    CHOOSE r \in {UNICODE_REGIONS[i] : i \in DOMAIN UNICODE_REGIONS} :
        r.name = "Custom Selection"

in_ranges(codepoint, ranges) ==
    \E i \in DOMAIN ranges : ranges[i][1] <= codepoint /\ codepoint <= ranges[i][2]

\* str.upper() of one character of a hex code
UpperChar(ch) ==
    CASE ch = "a" -> "A" [] ch = "b" -> "B" [] ch = "c" -> "C"
      [] ch = "d" -> "D" [] ch = "e" -> "E" [] ch = "f" -> "F"
      [] OTHER -> ch

\* str.upper()
Upper(code) == [i \in DOMAIN code |-> UpperChar(code[i])]

\* the value of one upper-case hex digit
DigitVal(ch) == (CHOOSE i \in DOMAIN HexDigits : HexDigits[i] = ch) - 1

RECURSIVE HexVal(_)
\* int(dst_hex, 16)
HexVal(code) ==
    IF Len(code) = 0 THEN 0
    ELSE 16 * HexVal(SubSeq(code, 1, Len(code) - 1)) + DigitVal(code[Len(code)])

\* line 140: exclude_set
ExcludeSet(codes) == {Upper(c) : c \in codes}

\* lines 177-183: some region other than Custom Selection has scramble set and
\* holds the code
RegionHit(code) ==
    \E i \in DOMAIN UNICODE_REGIONS :
        /\ UNICODE_REGIONS[i] # CustomRegion
        /\ UNICODE_REGIONS[i].scramble
        /\ in_ranges(code, UNICODE_REGIONS[i].ranges)

\* a classification that never consults the exclusion set
EligibleIgnoringExclusion(dst, exclude_set) ==
    LET code == HexVal(Upper(dst))
    IN  IF in_ranges(code, CustomRegion.ranges) THEN CustomRegion.scramble
        ELSE RegionHit(code)

\* a classification that consults the other regions before Custom Selection
EligibleRegionsFirst(dst, exclude_set) ==
    LET dst_hex == Upper(dst)
        code == HexVal(dst_hex)
    IN  IF dst_hex \in exclude_set THEN FALSE
        ELSE IF RegionHit(code) THEN TRUE
        ELSE IF in_ranges(code, CustomRegion.ranges) THEN CustomRegion.scramble
        ELSE FALSE

\* lines 162-185: TRUE when the entry goes to to_scramble, FALSE to to_keep
Eligible(dst, exclude_set) ==
    LET dst_hex == Upper(dst)
        code == HexVal(dst_hex)
    IN  IF dst_hex \in exclude_set THEN FALSE
        ELSE IF in_ranges(code, CustomRegion.ranges) THEN CustomRegion.scramble
        ELSE RegionHit(code)

RECURSIVE SelectEntries(_, _, _)
\* the entries, in order, whose classification is `want`
SelectEntries(entries, exclude_set, want) ==
    IF entries = <<>> THEN <<>>
    ELSE (IF Eligible(entries[1][2], exclude_set) = want THEN <<entries[1]>> ELSE <<>>)
         \o SelectEntries(Tail(entries), exclude_set, want)

\* lines 159-185
to_scramble(entries, exclude_set) == SelectEntries(entries, exclude_set, TRUE)
to_keep(entries, exclude_set) == SelectEntries(entries, exclude_set, FALSE)

----------------------------------------------------------------------------
\* The substitution

\* d[k] = v on an insertion-ordered dict
DictSet(d, k, v) ==
    IF \E i \in DOMAIN d : d[i][1] = k
    THEN [i \in DOMAIN d |-> IF d[i][1] = k THEN <<k, v>> ELSE d[i]]
    ELSE Append(d, <<k, v>>)

RECURSIVE DictUpdate(_, _)
\* d.update(pairs); with d empty, the dict comprehension {s: d for s, d in pairs}
DictUpdate(d, pairs) ==
    IF pairs = <<>> THEN d
    ELSE DictUpdate(DictSet(d, pairs[1][1], pairs[1][2]), Tail(pairs))

\* a cutoff rounded down instead of up
CutoffFloor(n, num) == (n * (RatioDen - num)) \div RatioDen

\* line 191: ceil(n * (1 - ratio)), for 0 <= ratio <= 1
Cutoff(n, num) == (n * (RatioDen - num) + RatioDen - 1) \div RatioDen

\* the permutations of 1..n
Perms(n) == {f \in [1..n -> 1..n] : \A i, j \in 1..n : f[i] = f[j] => i = j}

\* a tail drawn with replacement (random.choices) instead of shuffled
NewDstsWithReplacement(scr, num) ==
    LET dsts == [i \in DOMAIN scr |-> scr[i][2]]
        cutoff == (Len(dsts) * (RatioDen - num) + RatioDen - 1) \div RatioDen
        fixed == SubSeq(dsts, 1, cutoff)
        tail == SubSeq(dsts, cutoff + 1, Len(dsts))
    IN  {fixed \o [i \in DOMAIN tail |-> tail[f[i]]] :
            f \in [1..Len(tail) -> 1..Len(tail)]}

\* lines 190-195: the values new_dsts can take; random.shuffle puts the tail
\* in any order
NewDsts(scr, num) ==
    LET dsts == [i \in DOMAIN scr |-> scr[i][2]]
        cutoff == Cutoff(Len(dsts), num)
        fixed == SubSeq(dsts, 1, cutoff)
        tail == SubSeq(dsts, cutoff + 1, Len(dsts))
    IN  {fixed \o [i \in DOMAIN tail |-> tail[f[i]]] : f \in Perms(Len(tail))}

\* a mapping that lists the scrambled entries before the kept ones
NewMappingEligibleFirst(keep, scr, new_dsts) ==
    DictUpdate(DictUpdate(<<>>, [i \in DOMAIN scr |-> <<scr[i][1], new_dsts[i]>>]),
               keep)

\* lines 197-198
NewMapping(keep, scr, new_dsts) ==
    DictUpdate(DictUpdate(<<>>, keep),
               [i \in DOMAIN scr |-> <<scr[i][1], new_dsts[i]>>])

----------------------------------------------------------------------------
\* The codec harness: one table, encoded then decoded

\* the table of n entries with w-digit source codes; "asc" lists the source
\* codes 0..n-1 upwards, "desc" downwards (enumerated inputs)
Table(n, w, shape) ==
    [i \in 1..n |->
        LET s == IF shape = "asc" THEN i - 1 ELSE n - i
        IN  << Hex(s, w), Hex((s * 7 + 65) % 65536, 4) >>]

\* what a turn of the inner loop of scramble_pdf did (history)
Turn(kind, font, entries, keep, scr, map) ==
    [kind |-> kind, font |-> font, entries |-> entries, keep |-> keep,
     scr |-> scr, mapping |-> map]
NoTurn == Turn("none", 0, <<>>, <<>>, <<>>, <<>>)

\* the call of scramble_pdf is not part of the codec harness
PassOff ==
    /\ pc = "off" /\ pages = <<>> /\ fonts = <<>>
    /\ font_mappings = [b \in {} |-> <<>>]
    /\ ratioNum = 0 /\ exclude_codes = {} /\ page = 0 /\ idx = 0
    /\ fonts0 = <<>> /\ font_mappings0 = font_mappings /\ replaced = {}
    /\ last = NoTurn

CodecInit ==
    /\ \E n \in 1..MaxTableLen, w \in 1..MaxWidth, shape \in {"asc", "desc"} :
          /\ n <= Pow16(w)
          /\ mapping = Table(n, w, shape)
    /\ cpc = "in"
    /\ text = <<>>
    /\ parsed = <<>>
    /\ PassOff

Encode ==
    /\ cpc = "in"
    /\ text' = build_cmap(mapping)
    /\ cpc' = "built"
    /\ UNCHANGED <<mapping, parsed>>
    /\ UNCHANGED passVars

Decode ==
    /\ cpc = "built"
    /\ parsed' = parse_cmap(text)
    /\ cpc' = "parsed"
    /\ UNCHANGED <<mapping, text>>
    /\ UNCHANGED passVars

CodecNext == Encode \/ Decode

SpecCodec == CodecInit /\ [][CodecNext]_vars

----------------------------------------------------------------------------
\* One call of scramble_pdf

NoBase == "(no /BaseFont)"

\* the first font's source codes are 00, 01, ... in table order
Entries(dsts) == [i \in DOMAIN dsts |-> <<Hex(i - 1, 2), dsts[i]>>]

\* destination codes of the enumerated tables: 'A', 'B', 'N' (in lower-case
\* hex), '.'
CodeA == <<"4","1">>
CodeB == <<"4","2">>
CodeN == <<"4","e">>
CodeDot == <<"2","E">>

\* the destination codes of the first font's tables
DstCodes == {CodeA, CodeB, CodeN}

FirstTables ==
    UNION {{Entries(d) : d \in [1..n -> DstCodes]} : n \in 0..MaxEntries}

\* a /ToUnicode stream as the producer of the document wrote it
OrigStream(entries) ==
    << TextTok("/CIDInit /ProcSet findresource begin"),
       TextTok("begincmap"),
       CountTok(1), TextTok("begincodespacerange"),
       HexTok(<<"0","0">>), HexTok(<<"F","F">>),
       TextTok("endcodespacerange"),
       CountTok(Len(entries)), TextTok("beginbfchar") >>
    \o EntryLines(entries, 1, Len(entries))
    \o << TextTok("endbfchar"), TextTok("endcmap"), TextTok("end"), TextTok("end") >>

Font(base, has, entries) ==
    [base |-> base, has_tounicode |-> has,
     stream |-> IF has THEN OrigStream(entries) ELSE <<>>]

\* the second font object of the document
SecondFonts ==
    { Font("F", TRUE, Entries(<<CodeDot>>)),
      Font("F", TRUE, Entries(<<CodeDot, CodeN, CodeA>>)),
      Font("G", TRUE, Entries(<<CodeN, CodeA>>)),
      Font("G", FALSE, <<>>),
      Font(NoBase, TRUE, Entries(<<CodeA>>)) }

\* pdf.pages, each page the font objects it refers to
Layouts ==
    { << <<2>>, <<1>> >>,
      << <<1>>, <<>>, <<1, 2>> >> }

\* font_mappings as the caller passes it (None is the empty dict)
Caches ==
    { [b \in {} |-> <<>>],
      [b \in {"G"} |-> Entries(<<CodeA, CodeN>>)],
      [b \in {"G"} |-> <<>>] }

ExcludeCodes == { {}, {CodeN} }

Init ==
    /\ cpc = "off" /\ mapping = <<>> /\ text = <<>> /\ parsed = <<>>
    /\ pc = "call"
    /\ pages \in Layouts
    /\ \E t \in FirstTables, f2 \in SecondFonts :
          fonts = << Font("F", TRUE, t), f2 >>
    /\ fonts0 = fonts
    /\ font_mappings \in Caches
    /\ font_mappings0 = font_mappings
    /\ replaced = {}
    /\ ratioNum \in -1..(RatioDen + 1)
    /\ exclude_codes \in ExcludeCodes
    /\ page = 0 /\ idx = 0
    /\ last = NoTurn

codecOff == UNCHANGED codecVars
frame == UNCHANGED <<pages, ratioNum, exclude_codes, fonts0, font_mappings0>>

\* a range check that forgets the upper end
RatioOkLowerOnly(num) == 0 <= num

\* line 135: 0.0 <= ratio <= 1.0
RatioOk(num) == 0 <= num /\ num <= RatioDen

\* lines 135-136
RaiseValueError ==
    /\ pc = "call"
    /\ ~RatioOk(ratioNum)
    /\ pc' = "raised"
    /\ UNCHANGED <<fonts, font_mappings, page, idx, last>>
    /\ UNCHANGED replaced
    /\ frame /\ codecOff

\* a call that has no early return at ratio 0 and goes into the loops
ReturnAtZeroMissing ==
    /\ pc = "call"
    /\ ratioNum = 0
    /\ pc' = "loop" /\ page' = 1 /\ idx' = 1
    /\ UNCHANGED <<fonts, font_mappings, last, replaced>>
    /\ UNCHANGED <<pages, ratioNum, exclude_codes, fonts0, font_mappings0>>
    /\ UNCHANGED codecVars

\* lines 137-138
ReturnAtZero ==
    /\ pc = "call"
    /\ RatioOk(ratioNum)
    /\ ratioNum = 0
    /\ pc' = "returned"
    /\ UNCHANGED <<fonts, font_mappings, page, idx, last>>
    /\ UNCHANGED replaced
    /\ frame /\ codecOff

\* lines 140-144: the loops are entered
EnterLoop ==
    /\ pc = "call"
    /\ RatioOk(ratioNum)
    /\ ratioNum # 0
    /\ pc' = "loop" /\ page' = 1 /\ idx' = 1
    /\ UNCHANGED <<fonts, font_mappings, last>>
    /\ UNCHANGED replaced
    /\ frame /\ codecOff

\* the inner loop stands at a font of the page
AtFont == pc = "loop" /\ page <= Len(pages) /\ idx <= Len(pages[page])
cur == pages[page][idx]
font_obj == fonts[cur]
basefont == font_obj.base
exclude_set == ExcludeSet(exclude_codes)

\* line 146: the fonts of the page are exhausted
NextPage ==
    /\ pc = "loop" /\ page <= Len(pages) /\ idx > Len(pages[page])
    /\ page' = page + 1 /\ idx' = 1
    /\ UNCHANGED <<pc, fonts, font_mappings, last>>
    /\ UNCHANGED replaced
    /\ frame /\ codecOff

\* line 144: the pages are exhausted, the call returns
Return ==
    /\ pc = "loop" /\ page > Len(pages)
    /\ pc' = "returned"
    /\ UNCHANGED <<fonts, font_mappings, page, idx, last>>
    /\ UNCHANGED replaced
    /\ frame /\ codecOff

\* lines 147-148
SkipNoToUnicode ==
    /\ AtFont
    /\ ~font_obj.has_tounicode
    /\ idx' = idx + 1
    /\ last' = Turn("no_tounicode", cur, <<>>, <<>>, <<>>, <<>>)
    /\ UNCHANGED <<pc, fonts, font_mappings, page>>
    /\ UNCHANGED replaced
    /\ frame /\ codecOff

\* line 150: font_obj["/BaseFont"] of a font without the key raises KeyError
RaiseKeyError ==
    /\ AtFont
    /\ font_obj.has_tounicode
    /\ basefont = NoBase
    /\ pc' = "raised"
    /\ last' = Turn("key_error", cur, <<>>, <<>>, <<>>, <<>>)
    /\ UNCHANGED <<fonts, font_mappings, page, idx>>
    /\ UNCHANGED replaced
    /\ frame /\ codecOff

\* lines 151-152, 201-202: the cached mapping is encoded and replaces the stream
ReuseCached ==
    /\ AtFont
    /\ font_obj.has_tounicode
    /\ basefont # NoBase
    /\ basefont \in DOMAIN font_mappings
    /\ font_mappings[basefont] # <<>>
    /\ fonts' = [fonts EXCEPT ![cur].stream = build_cmap(font_mappings[basefont])]
    /\ idx' = idx + 1
    /\ last' = Turn("reuse", cur, parse_cmap(font_obj.stream), <<>>, <<>>,
                    font_mappings[basefont])
    /\ UNCHANGED <<pc, font_mappings, page>>
    /\ replaced' = replaced \cup {cur}
    /\ frame /\ codecOff

\* lines 151-152, 201, 76: max() of the empty cached mapping raises ValueError
RaiseOnEmptyMapping ==
    /\ AtFont
    /\ font_obj.has_tounicode
    /\ basefont # NoBase
    /\ basefont \in DOMAIN font_mappings
    /\ font_mappings[basefont] = <<>>
    /\ pc' = "raised"
    /\ last' = Turn("empty_mapping", cur, <<>>, <<>>, <<>>, <<>>)
    /\ UNCHANGED <<fonts, font_mappings, page, idx>>
    /\ UNCHANGED replaced
    /\ frame /\ codecOff

\* the font is neither skipped at line 148 nor served from the cache
Computes ==
    /\ AtFont
    /\ font_obj.has_tounicode
    /\ basefont # NoBase
    /\ basefont \notin DOMAIN font_mappings

\* lines 154-157
SkipNoEntries ==
    /\ Computes
    /\ parse_cmap(font_obj.stream) = <<>>
    /\ idx' = idx + 1
    /\ last' = Turn("no_entries", cur, <<>>, <<>>, <<>>, <<>>)
    /\ UNCHANGED <<pc, fonts, font_mappings, page>>
    /\ UNCHANGED replaced
    /\ frame /\ codecOff

\* a skip that still caches the kept entries and rewrites the stream
SkipNoneEligibleRewrites ==
    /\ Computes
    /\ LET entries == parse_cmap(font_obj.stream)
           keep == to_keep(entries, exclude_set)
           map == NewMapping(keep, <<>>, <<>>)
       IN  /\ entries # <<>>
           /\ to_scramble(entries, exclude_set) = <<>>
           /\ font_mappings' =
                 [b \in DOMAIN font_mappings \cup {basefont} |->
                     IF b = basefont THEN map ELSE font_mappings[b]]
           /\ fonts' = [fonts EXCEPT ![cur].stream = build_cmap(map)]
           /\ last' = Turn("none_eligible", cur, entries, keep, <<>>, <<>>)
    /\ idx' = idx + 1
    /\ UNCHANGED <<pc, page>>
    /\ UNCHANGED replaced
    /\ frame /\ codecOff

\* lines 154-188
SkipNoneEligible ==
    /\ Computes
    /\ LET entries == parse_cmap(font_obj.stream)
       IN  /\ entries # <<>>
           /\ to_scramble(entries, exclude_set) = <<>>
           /\ last' = Turn("none_eligible", cur, entries,
                           to_keep(entries, exclude_set), <<>>, <<>>)
    /\ idx' = idx + 1
    /\ UNCHANGED <<pc, fonts, font_mappings, page>>
    /\ UNCHANGED replaced
    /\ frame /\ codecOff

\* a computed mapping that is never put into the cache
CacheStoreDropped(fm, base, map) == fm

\* a cache rebound to the one new entry
CacheStoreOnly(fm, base, map) == [b \in {base} |-> map]

\* line 199: font_mappings[basefont] = mapping
CacheStore(fm, base, map) ==
    [b \in DOMAIN fm \cup {base} |-> IF b = base THEN map ELSE fm[b]]

\* lines 154-202
Scramble ==
    /\ Computes
    /\ LET entries == parse_cmap(font_obj.stream)
           scr == to_scramble(entries, exclude_set)
           keep == to_keep(entries, exclude_set)
       IN  /\ entries # <<>>
           /\ scr # <<>>
           /\ \E new_dsts \in NewDsts(scr, ratioNum) :
                 LET map == NewMapping(keep, scr, new_dsts)
                 IN  /\ font_mappings' = CacheStore(font_mappings, basefont, map)
                     /\ fonts' = [fonts EXCEPT ![cur].stream = build_cmap(map)]
                     /\ last' = Turn("scramble", cur, entries, keep, scr, map)
    /\ idx' = idx + 1
    /\ UNCHANGED <<pc, page>>
    /\ replaced' = replaced \cup {cur}
    /\ frame /\ codecOff

Next ==
    \/ RaiseValueError
    \/ ReturnAtZero
    \/ EnterLoop
    \/ NextPage
    \/ Return
    \/ SkipNoToUnicode
    \/ RaiseKeyError
    \/ ReuseCached
    \/ RaiseOnEmptyMapping
    \/ SkipNoEntries
    \/ SkipNoneEligible
    \/ Scramble

Spec == Init /\ [][Next]_vars

----------------------------------------------------------------------------
\* Properties of the codec (checked under SpecCodec)

\* C1 (round trip): for every non-empty table with pairwise distinct source
\* codes, of one block or of several, parse_cmap of build_cmap of the table is
\* the table: the same (source, destination) pairs in the same order, none
\* added by the codespace range, none lost.
RoundTrip == cpc = "parsed" => parsed = mapping

\* a table of three blocks has made the round trip
RoundTripWitness ==
    /\ cpc = "parsed"
    /\ Len(mapping) > 2 * ChunkSize
    /\ Len(parsed) = Len(mapping)
    /\ parsed[Len(parsed)] = mapping[Len(mapping)]

\* the beginbfchar tokens of a text
BlockStarts(toks) == {i \in 1..Len(toks) : toks[i].k = "beginbfchar"}

\* the number of entries between the beginbfchar at b and its endbfchar
BlockEntries(toks, b) == (FirstIndex(toks, "endbfchar", b + 1) - b - 1) \div 2

\* C2 (chunking): every beginbfchar ... endbfchar block that build_cmap emits
\* holds at most 100 entries, and the count written in front of it is the
\* number of entries it holds.
Chunking ==
    cpc \in {"built", "parsed"} =>
        \A b \in BlockStarts(text) :
            /\ BlockEntries(text, b) <= ChunkSize
            /\ text[b - 1].n = BlockEntries(text, b)

----------------------------------------------------------------------------
\* Properties of a call of scramble_pdf (checked under Spec)

\* the table decoded from the stream font f carries now
Decoded(f) == parse_cmap(fonts[f].stream)

\* the destination codes a table gives a source code
DstsOf(table, src) == {table[i][2] : i \in {j \in DOMAIN table : table[j][1] = src}}

\* the value of a key the dict holds
Get(d, key) == d[CHOOSE i \in DOMAIN d : d[i][1] = key][2]

\* the source codes of a table, in order
Srcs(table) == [i \in DOMAIN table |-> table[i][1]]

\* the number of places of a sequence that hold v
Count(seq, v) == Cardinality({i \in DOMAIN seq : seq[i] = v})

\* the destination code is in the exclusion set, compared case-insensitively
Excluded(dst) == Upper(dst) \in {Upper(c) : c \in exclude_codes}

\* the mapping the cache holds for the font of the last turn
NewMap == font_mappings[fonts[last.font].base]

\* the excluded entries of the table the last turn found kept their
\* destination code in the table the font carries now
ExcludedKept ==
    \A i \in DOMAIN last.entries :
        Excluded(last.entries[i][2]) =>
            DstsOf(Decoded(last.font), last.entries[i][1]) = {last.entries[i][2]}

\* C3 as stated (exclusion precedence for every font that is processed): after
\* a turn that replaced a font's stream, from the cache or by a new
\* substitution, every entry of the font's table whose destination code is in
\* the exclusion set has the same destination code in the replacement table.
ExclusionEveryFont == last.kind \in {"reuse", "scramble"} => ExcludedKept

\* C3 as amended: after a turn that computed the font's substitution (its
\* BaseFont was not in the cache), every entry whose destination code is in the
\* exclusion set has the same destination code in the replacement table.
ExclusionWhenComputed == last.kind = "scramble" => ExcludedKept

\* at ratio 1 a table with an excluded entry was scrambled and an eligible
\* entry changed its destination code
ExclusionWitness ==
    /\ last.kind = "scramble"
    /\ ratioNum = RatioDen
    /\ \E i \in DOMAIN last.entries : Excluded(last.entries[i][2])
    /\ \E i \in DOMAIN last.scr : Get(NewMap, last.scr[i][1]) # last.scr[i][2]

\* the destination codes of the eligible entries before and after the turn
OldDsts == [i \in DOMAIN last.scr |-> last.scr[i][2]]
NewDstsOfEligible == [i \in DOMAIN last.scr |-> Get(NewMap, last.scr[i][1])]

\* C4 (multiset conservation): when a substitution is computed, every
\* destination code occurs as often among the destination codes the new mapping
\* gives the eligible source codes as among those the eligible entries had.
MultisetConservation ==
    last.kind = "scramble" =>
        \A c \in {OldDsts[i] : i \in DOMAIN OldDsts}
                 \cup {NewDstsOfEligible[i] : i \in DOMAIN NewDstsOfEligible} :
            Count(NewDstsOfEligible, c) = Count(OldDsts, c)

\* eligible entries with a repeated destination code were permuted
MultisetWitness ==
    /\ last.kind = "scramble"
    /\ Len(last.scr) = 3
    /\ Cardinality({OldDsts[i] : i \in DOMAIN OldDsts}) = 2
    /\ NewDstsOfEligible # OldDsts
    /\ exclude_codes = {}

\* ceil(n * (1 - ratio)), as the least integer not below n * (1 - ratio)
CeilCutoff(n) ==
    CHOOSE c \in 0..n :
        /\ c * RatioDen >= n * (RatioDen - ratioNum)
        /\ (c - 1) * RatioDen < n * (RatioDen - ratioNum)

\* C5 (fixed prefix): with n eligible entries and cutoff = ceil(n * (1 - r)), the
\* first cutoff eligible entries keep their destination codes in the new mapping
\* and the destination codes of the others are permuted among those others.
FixedPrefix ==
    last.kind = "scramble" =>
        LET n == Len(last.scr)
            cutoff == CeilCutoff(n)
            oldTail == SubSeq(OldDsts, cutoff + 1, n)
            newTail == SubSeq(NewDstsOfEligible, cutoff + 1, n)
        IN  /\ \A i \in 1..cutoff : NewDstsOfEligible[i] = OldDsts[i]
            /\ \A c \in {oldTail[i] : i \in DOMAIN oldTail}
                        \cup {newTail[i] : i \in DOMAIN newTail} :
                   Count(newTail, c) = Count(oldTail, c)

\* three eligible entries at ratio 3/4: the first is kept, the other two
\* changed places
FixedPrefixWitness ==
    /\ last.kind = "scramble"
    /\ Len(last.scr) = 3
    /\ CeilCutoff(3) = 1
    /\ NewDstsOfEligible[1] = OldDsts[1]
    /\ NewDstsOfEligible[2] = OldDsts[3]
    /\ NewDstsOfEligible[3] = OldDsts[2]
    /\ OldDsts[2] # OldDsts[3]

\* C6 (identity at ratio 0): a call with ratio 0 returns normally, and every
\* font's stream and the cache are as they were at the call.
IdentityAtZero ==
    (ratioNum = 0 /\ pc \notin {"call", "off"}) =>
        /\ pc = "returned"
        /\ fonts = fonts0
        /\ font_mappings = font_mappings0
        /\ replaced = {}
        /\ last = NoTurn

\* a call with ratio 0 returned, the cache seeded for a font of the document
IdentityAtZeroWitness ==
    /\ ratioNum = 0
    /\ pc = "returned"
    /\ \E f \in DOMAIN fonts :
          fonts[f].has_tounicode /\ fonts[f].base \in DOMAIN font_mappings

\* C7 (ratio validation): a call with a ratio below 0 or above 1 ends in
\* ValueError; no stream was read or replaced and the cache is as it was.
RatioValidation ==
    ((ratioNum < 0 \/ ratioNum > RatioDen) /\ pc \notin {"call", "off"}) =>
        /\ pc = "raised"
        /\ fonts = fonts0
        /\ font_mappings = font_mappings0
        /\ replaced = {}
        /\ last = NoTurn

\* a call with a ratio above 1 raised, on a document with fonts to scramble
RatioValidationWitness ==
    /\ ratioNum > RatioDen
    /\ pc = "raised"
    /\ \E f \in DOMAIN fonts : to_scramble(Decoded(f), {}) # <<>>

\* C8 as stated (determinism of reuse): when a call with ratio > 0 has
\* returned, any two fonts that own a stream and declare the same BaseFont
\* carry the same stream.
ReuseDeterminismAll ==
    (pc = "returned" /\ ratioNum > 0) =>
        \A f, g \in DOMAIN fonts :
            (/\ fonts[f].has_tounicode /\ fonts[g].has_tounicode
             /\ fonts[f].base = fonts[g].base)
            => fonts[f].stream = fonts[g].stream

\* C8 as amended: any two fonts that declare the same BaseFont and whose stream
\* the call has replaced carry the same stream.
ReuseDeterminismReplaced ==
    \A f, g \in replaced :
        fonts[f].base = fonts[g].base => fonts[f].stream = fonts[g].stream

\* two fonts of one BaseFont with different tables were both replaced
ReuseDeterminismWitness ==
    /\ pc = "returned"
    /\ replaced = {1, 2}
    /\ fonts[1].base = fonts[2].base
    /\ fonts0[1].stream # fonts0[2].stream
    /\ fonts[1].stream = fonts[2].stream

\* C9 as stated (output order): the table built for a font lists the source
\* codes in the order of the decoded original table.
OutputOrderOriginal ==
    last.kind = "scramble" => Srcs(Decoded(last.font)) = Srcs(last.entries)

\* C9 as amended: the table built for a font lists first the protected entries,
\* in their original order, then the eligible entries, in their original order,
\* and build_cmap emits the mapping in that order.
OutputOrderKeptFirst ==
    last.kind = "scramble" =>
        /\ Srcs(NewMap) = Srcs(to_keep(last.entries, ExcludeSet(exclude_codes)))
                          \o Srcs(to_scramble(last.entries, ExcludeSet(exclude_codes)))
        /\ Decoded(last.font) = NewMap

\* a table whose first entry is eligible and whose second is protected was
\* scrambled
OutputOrderWitness ==
    /\ last.kind = "scramble"
    /\ Len(last.entries) >= 2
    /\ last.entries[1] \in {last.scr[i] : i \in DOMAIN last.scr}
    /\ last.entries[2] \in {last.keep[i] : i \in DOMAIN last.keep}
    /\ Srcs(Decoded(last.font)) # Srcs(last.entries)

\* C10 (the cache is write-once): no step of a call changes or removes an entry
\* of the cache, and a step adds an entry only for the BaseFont of the font the
\* loop stands at, when that BaseFont is not cached and the font's table has an
\* eligible entry.
CacheWriteOnce ==
    [][ /\ \A b \in DOMAIN font_mappings :
              b \in DOMAIN font_mappings' /\ font_mappings'[b] = font_mappings[b]
        /\ font_mappings' # font_mappings =>
              /\ AtFont
              /\ font_obj.has_tounicode
              /\ basefont \notin DOMAIN font_mappings
              /\ DOMAIN font_mappings' = DOMAIN font_mappings \cup {basefont}
              /\ \E i \in DOMAIN parse_cmap(font_obj.stream) :
                    Eligible(parse_cmap(font_obj.stream)[i][2], exclude_set)
      ]_vars

\* the cache holds the entry the caller seeded and one the call computed
CacheWriteOnceWitness ==
    /\ DOMAIN font_mappings0 = {"G"}
    /\ DOMAIN font_mappings = {"F", "G"}
    /\ font_mappings["G"] = font_mappings0["G"]

\* the two bounds of the codespace range a text declares
CodespaceBounds(toks) ==
    LET b == FirstIndex(toks, "begincodespacerange", 1)
    IN  << toks[b + 1].c, toks[b + 2].c >>

\* the length of the longest source code of a table
LongestSrc(m) ==
    CHOOSE l \in {Len(m[i][1]) : i \in DOMAIN m} :
        \A i \in DOMAIN m : Len(m[i][1]) <= l

\* C14 (codespace width): the low and high bounds of the codespace range that
\* build_cmap emits are all '0' and all 'F' and have as many hex digits as the
\* longest source code of the table, whether that number is odd or even.
CodespaceWidth ==
    cpc \in {"built", "parsed"} =>
        LET lo == CodespaceBounds(text)[1]
            hi == CodespaceBounds(text)[2]
        IN  /\ Len(lo) = LongestSrc(mapping)
            /\ Len(hi) = LongestSrc(mapping)
            /\ \A i \in DOMAIN lo : lo[i] = "0"
            /\ \A i \in DOMAIN hi : hi[i] = "F"

----------------------------------------------------------------------------
\* Failures and skips in a call of scramble_pdf (checked under Spec)

\* a font stands after the position of the loops
LaterFont ==
    \E p \in DOMAIN pages : \E i \in DOMAIN pages[p] :
        p > page \/ (p = page /\ i > idx)

\* C13 (a pass survives a single font's failure): when a font fails because it
\* declares no BaseFont or because the mapping cached for it is empty, the call
\* is still in its loops, or has returned after them, and has not been ended by
\* the failure while later fonts stand unprocessed.
PassSurvivesFailure ==
    (last.kind \in {"key_error", "empty_mapping"} /\ LaterFont) =>
        pc \in {"loop", "returned"}

\* the loops stand at a font that the call is to skip: its identity is not in
\* the cache and it has no /ToUnicode stream, or the stream decodes to no
\* entry, or no entry of it is eligible
AtSkippedFont ==
    /\ AtFont
    /\ basefont \notin DOMAIN font_mappings
    /\ \/ ~font_obj.has_tounicode
       \/ Decoded(cur) = <<>>
       \/ \A i \in DOMAIN Decoded(cur) :
              ~Eligible(Decoded(cur)[i][2], exclude_set)

\* C12 (skipped fonts are untouched): the step that processes a font whose
\* identity is not in the cache and that has no /ToUnicode stream, or whose
\* stream decodes to no entry, or none of whose entries is eligible, leaves
\* every font's stream and the cache as they were.
SkippedUntouched ==
    [][AtSkippedFont => (fonts' = fonts /\ font_mappings' = font_mappings)]_vars

\* a font with entries of which none was eligible has been passed over: it
\* carries the stream it had, and the cache is the one the caller passed
SkippedUntouchedWitness ==
    /\ last.kind = "none_eligible"
    /\ last.entries # <<>>
    /\ fonts[last.font].base \notin DOMAIN font_mappings
    /\ fonts[last.font] = fonts0[last.font]
    /\ font_mappings = font_mappings0

----------------------------------------------------------------------------
\* The partition harness: one table of two entries with the same destination
\* code is partitioned

\* the source codes of the two entries
SrcOne == <<"0","0","0","1">>
SrcTwo == <<"0","0","A","2">>

\* a lower-case hex digit for an upper-case one
LowerChar(ch) ==
    CASE ch = "A" -> "a" [] ch = "B" -> "b" [] ch = "C" -> "c"
      [] ch = "D" -> "d" [] ch = "E" -> "e" [] ch = "F" -> "f"
      [] OTHER -> ch

Lower(code) == [i \in DOMAIN code |-> LowerChar(code[i])]

\* a destination code as a table writes it: one UTF-16 unit in four digits,
\* anything above in eight
DstHex(v) == Hex(v, IF v < Pow16(4) THEN 4 ELSE 8)

\* the exclusion lists handed in with destination code dst of value v: none,
\* dst itself in the other case, another code
ExcludeLists(v, dst) ==
    { {},
      {IF dst = Lower(dst) THEN Upper(dst) ELSE Lower(dst)},
      {DstHex((v + 1) % (MaxCodepoint + 1))} }

PartitionInit ==
    /\ cpc = "off" /\ mapping = <<>> /\ text = <<>> /\ parsed = <<>>
    /\ pc = "partition" /\ pages = <<>> /\ fonts = <<>>
    /\ font_mappings = [b \in {} |-> <<>>]
    /\ ratioNum = 0 /\ page = 0 /\ idx = 0
    /\ fonts0 = <<>> /\ font_mappings0 = font_mappings /\ replaced = {}
    /\ \E v \in 0..MaxCodepoint, lower \in BOOLEAN :
          LET dst == IF lower THEN Lower(DstHex(v)) ELSE DstHex(v)
          IN  /\ exclude_codes \in ExcludeLists(v, dst)
              /\ last = Turn("input", 0, << <<SrcOne, dst>>, <<SrcTwo, dst>> >>,
                             <<>>, <<>>, <<>>)

\* lines 140, 159-185: the entries are split into to_keep and to_scramble
Partition ==
    /\ pc = "partition"
    /\ pc' = "partitioned"
    /\ last' = Turn("partition", 0, last.entries,
                    to_keep(last.entries, ExcludeSet(exclude_codes)),
                    to_scramble(last.entries, ExcludeSet(exclude_codes)), <<>>)
    /\ UNCHANGED <<pages, fonts, font_mappings, ratioNum, exclude_codes, page, idx,
                   fonts0, font_mappings0, replaced>>
    /\ UNCHANGED codecVars

PartitionNext == Partition

SpecPartition == PartitionInit /\ [][PartitionNext]_vars

----------------------------------------------------------------------------
\* Properties of the partition (checked under SpecPartition)

RECURSIVE FirstRule(_, _)
\* the flag of the first rule from place i on, Custom Selection left out, whose
\* ranges hold the code; FALSE (Protected) when no rule holds it
FirstRule(code, i) ==
    IF i > Len(UNICODE_REGIONS) THEN FALSE
    ELSE IF UNICODE_REGIONS[i].name # "Custom Selection"
            /\ in_ranges(code, UNICODE_REGIONS[i].ranges)
         THEN UNICODE_REGIONS[i].scramble
         ELSE FirstRule(code, i + 1)

\* first match in the order exclusion set, Custom Selection, remaining rules,
\* default Protected: TRUE for Eligible
FirstMatch(dst) ==
    IF Excluded(dst) THEN FALSE
    ELSE IF in_ranges(HexVal(Upper(dst)), CustomRegion.ranges)
         THEN CustomRegion.scramble
         ELSE FirstRule(HexVal(Upper(dst)), 1)

\* C11 (classification priority): with the built-in rule table the partition
\* puts an entry into to_scramble exactly when first-match evaluation of its
\* destination code (exclusion set, then Custom Selection, then the remaining
\* rules in order, then default Protected) says Eligible, and into to_keep
\* otherwise; entries with the same destination code and different source codes
\* land in the same list.
ClassificationPriority ==
    pc = "partitioned" =>
        /\ last.scr = IF FirstMatch(last.entries[1][2]) THEN last.entries ELSE <<>>
        /\ last.keep = IF FirstMatch(last.entries[1][2]) THEN <<>> ELSE last.entries

\* a digit or 'I', not excluded, is held by Custom Selection and by the
\* scrambled ASCII rule, and both its entries were kept
ClassificationPriorityWitness ==
    /\ pc = "partitioned"
    /\ exclude_codes = {}
    /\ HexVal(Upper(last.entries[1][2])) \in (48..57) \cup {73}
    /\ RegionHit(HexVal(Upper(last.entries[1][2])))
    /\ last.keep = last.entries
    /\ last.scr = <<>>

====
